---- MODULE Spec2Model ----
(***************************************************************************)
(* A state-machine model of the LayercodeClient voice session client       *)
(* (src/unnamed/part_003, the current src/index.ts of the SDK) together    *)
(* with the parts of WavStreamPlayer (src/src/wavtools/index.d.ts) and of  *)
(* the StreamProcessor worklet it drives.                                  *)
(*                                                                         *)
(* One action models one callback of the single-threaded event loop:       *)
(* a public method call, a WebSocket event, a capture chunk, a VAD event,  *)
(* a timer, or the resumption of an async function after an await.         *)
(***************************************************************************)
EXTENDS Integers, Sequences, FiniteSets, TLC

(***************************************************************************)
(* Bounds of the model.                                                    *)
(***************************************************************************)
MaxConnects == 1
MaxDisconnects == 2
MaxChunks == 2
MaxGateChunks == 12
MaxTurns == 2
MaxPending == 1
MaxTimers == 1
MaxOffset == 1
MaxSessions == 2

(***************************************************************************)
(* Program constants.                                                      *)
(***************************************************************************)
BufferCapacity == 10
PlayerSampleRate == 16000
WorkletBufferLength == 128
SilenceFramesThreshold == 30

VARIABLES
  status,             \* this.status
  ws,                 \* this.ws: 0 is null, else an index into socks
  socks,              \* every WebSocket created so far
  pushToTalkEnabled,
  pushToTalkActive,
  canInterrupt,
  userIsSpeaking,
  endUserTurn,
  recorderStarted,
  readySent,
  currentTurnId,      \* 0 is null
  audioBuffer,
  vad,                \* this.vad: 0 is null, else an index into vads
  sessionId,          \* this.sessionId: 0 is null
  connectPc,          \* where the pending connect() is suspended
  recording,          \* WavRecorder delivers chunks to _handleDataAvailable
  vads,               \* every MicVAD.new() call made so far
  pReady,             \* WavStreamPlayer.analyser is set (connect() finished)
  pStream,            \* WavStreamPlayer.stream is non-null
  pIsPlaying,         \* WavStreamPlayer.isPlaying
  pInterrupted,       \* WavStreamPlayer.interruptedTrackIds
  wTrack,             \* StreamProcessor.write.trackId (0 is null)
  wStop,              \* StreamProcessor.hasInterrupted, its stop not yet posted
  pending,            \* interrupt() calls awaiting their offset reply
  resumeTimers,       \* pending vadResumeDelay timeouts of onVADMisfire
  onDisconnectCalls,  \* how often options.onDisconnect has been invoked
  trace,              \* what the last callback logged, invoked and sent
  lastOp,             \* the last callback and its input
  nConnects, nChunks, nDisconnects

clientVars == <<status, ws, pushToTalkEnabled, pushToTalkActive, canInterrupt,
                userIsSpeaking, endUserTurn, recorderStarted, readySent,
                currentTurnId, audioBuffer, vad, sessionId>>
turnVars == <<pushToTalkEnabled, pushToTalkActive, canInterrupt, userIsSpeaking,
              endUserTurn, currentTurnId>>
playerVars == <<pReady, pStream, pIsPlaying, pInterrupted, wTrack, wStop, pending>>
boundVars == <<nConnects, nChunks, nDisconnects>>
vars == <<clientVars, socks, connectPc, recording, vads, playerVars, resumeTimers,
          onDisconnectCalls, trace, lastOp, boundVars>>

(***************************************************************************)
(* Inbound frames.  A frame is either text that JSON.parse rejects, the    *)
(* JSON value null, or a JSON object with an optional type tag.            *)
(***************************************************************************)
TypeAbsent == "<absent>"
TypeNull == "<null>"
KnownTypes == {"turn.start", "turn.end", "response.audio", "response.text", "response.data"}
UnknownTypes == {"speech_send_tracking"}
MissingTypes == {TypeAbsent, TypeNull, ""}
Roles == {"user", "assistant"}
Turns == 1..MaxTurns

Frame(k, t, r, n) == [kind |-> k, type |-> t, role |-> r, turn |-> n]
NoFrame == Frame("none", "", "", 0)
Frames ==
  {Frame("text", "", "", 0), Frame("null", "", "", 0)}
    \cup {Frame("object", t, r, 0) : t \in {"turn.start", "turn.end"}, r \in Roles}
    \cup {Frame("object", t, "", n) : t \in {"response.audio", "response.text"}, n \in Turns}
    \cup {Frame("object", t, "", 0) : t \in {"response.data"} \cup UnknownTypes \cup MissingTypes}

(***************************************************************************)
(* Observations: one entry per console call, host callback or _wsSend.     *)
(***************************************************************************)
EvA(e, t, a, n) == [ev |-> e, text |-> t, arg |-> a, n |-> n, turn |-> 0, sock |-> 0]
Ev(e, t, n) == EvA(e, t, "", n)
Msg(t, e, n, tid) == [type |-> t, event |-> e, n |-> n, turn |-> tid]
Count(tr, e) == Cardinality({k \in DOMAIN tr : tr[k].ev = e})
Op(o, f, i) == [op |-> o, frame |-> f, sock |-> i]

Sock(st, b) == [state |-> st, bound |-> b, closed |-> FALSE]

\* _setStatus: the assignment and the onStatusChange callback
_setStatus(s) == <<Ev("onStatusChange", s, 0)>>

\* this.ws?.readyState === WebSocket.OPEN, for the socket w among ss
ChannelOpen(w, ss) == w # 0 /\ ss[w].state = "OPEN"

\* _wsSend(m): the message reaches the channel only when this.ws is OPEN;
\* sock is the socket it was handed to, 0 when it was dropped
_wsSend(m, w, ss) ==
  [ev |-> "_wsSend", text |-> m.type, arg |-> m.event, n |-> m.n, turn |-> m.turn,
   sock |-> IF ChannelOpen(w, ss) THEN w ELSE 0]

(***************************************************************************)
(* Init: the state the constructor leaves.                                 *)
(***************************************************************************)
Init ==
  /\ status = "disconnected"
  /\ ws = 0
  /\ socks = <<>>
  /\ pushToTalkEnabled = FALSE
  /\ pushToTalkActive = FALSE
  /\ canInterrupt = FALSE
  /\ userIsSpeaking = FALSE
  /\ endUserTurn = FALSE
  /\ recorderStarted = FALSE
  /\ readySent = FALSE
  /\ currentTurnId = 0
  /\ audioBuffer = <<>>
  /\ vad = 0
  /\ sessionId = 0    \* options.sessionId || null, without the option
  /\ connectPc = "idle"
  /\ recording = FALSE
  /\ vads = <<>>
  /\ pReady = FALSE
  /\ pStream = FALSE
  /\ pIsPlaying = FALSE
  /\ pInterrupted = {}
  /\ wTrack = 0
  /\ wStop = FALSE
  /\ pending = <<>>
  /\ resumeTimers = 0
  /\ onDisconnectCalls = 0
  /\ trace = <<>>
  /\ lastOp = Op("constructor", NoFrame, 0)
  /\ nConnects = 0
  /\ nChunks = 0
  /\ nDisconnects = 0

\* the onDisconnect invocations of a callback's trace, added to the running total
Tally(tr) == onDisconnectCalls + Count(tr, "onDisconnect")

(***************************************************************************)
(* WavStreamPlayer, as far as the client drives it.                        *)
(***************************************************************************)
Req(st, t, o) == [state |-> st, track |-> t, offset |-> o]

\* WavStreamPlayer.add16BitPCM -> _start: without an analyser (before
\* WavStreamPlayer.connect has finished) starting a stream throws
add16BitPCMThrows(t) == t \notin pInterrupted /\ ~pStream /\ ~pReady

clearInterruptedTracksDropsAll(keep) == {}

\* WavStreamPlayer.clearInterruptedTracks(keepTrackIds)
clearInterruptedTracks(keep) == IF keep = {} THEN {} ELSE pInterrupted \cap keep

\* _clientInterruptAssistantReplay up to its await: wavPlayer.interrupt()
\* returns null at once without a stream, else posts the request and polls
InterruptTrace ==
  <<Ev("wavPlayer.interrupt", "", 0)>>
    \o (IF pStream THEN <<>>
        ELSE <<Ev("console.warn", "Interruption requested but missing required data:", 0)>>)
InterruptPending == IF pStream THEN Append(pending, Req("posted", 0, 0)) ELSE pending
\* the model holds at most MaxPending interrupt() calls in flight
InterruptRoom == ~pStream \/ Len(pending) < MaxPending

(***************************************************************************)
(* _handleWebSocketMessage                                                 *)
(***************************************************************************)
\* JSON.parse(event.data) throws on text that is not JSON; reading .type of
\* the JSON value null throws as well
JSONParseThrows(f) == f.kind = "text"
TypeReadThrows(f) == f.kind = "null"

\* the arm of switch (message.type)
SwitchArm(f) ==
  IF f.type \in {"turn.start", "response.audio", "response.text", "response.data"}
  THEN f.type
  ELSE "default"

\* case 'turn.start': whether _clientInterruptAssistantReplay is awaited
TurnStartInterrupts(f) == f.role # "assistant" /\ f.role = "user" /\ ~pushToTalkEnabled

TextSetsTurnAlways(cur) == TRUE

\* case 'response.text': whether currentTurnId is taken from the message
TextSetsTurn(cur) == cur = 0

\* default: what the arm reports
DefaultArm(f) == <<EvA("console.error", "Unknown message type received:", f.type, 0)>>

\* a catch that only logs, to show what C3 rests on
MessageCatchLogsOnly == <<Ev("console.error", "Error processing WebSocket message:", 0)>>
\* catch (error): what the handler reports
MessageCatch == <<Ev("console.error", "Error processing WebSocket message:", 0),
                  Ev("onError", "", 0)>>

_handleWebSocketMessage(i, f) ==
  /\ i \in DOMAIN socks
  /\ socks[i].state = "OPEN"
  /\ socks[i].bound
  /\ LET parsed == ~JSONParseThrows(f) /\ ~TypeReadThrows(f)
         arm == IF parsed THEN SwitchArm(f) ELSE "none"
         audio == arm = "response.audio"
         thrown == ~parsed \/ (audio /\ add16BitPCMThrows(f.turn))
         interrupt == arm = "turn.start" /\ TurnStartInterrupts(f)
         played == audio /\ ~thrown /\ f.turn \notin pInterrupted
         newTurn == audio /\ ~thrown /\ (currentTurnId = 0 \/ currentTurnId # f.turn)
         firstText == arm = "response.text" /\ TextSetsTurn(currentTurnId)
         tr == IF thrown THEN MessageCatch
               ELSE CASE arm = "turn.start" -> IF interrupt THEN InterruptTrace ELSE <<>>
                      [] arm = "response.audio" ->
                           <<Ev("add16BitPCM", "", f.turn)>>
                             \o (IF newTurn THEN <<Ev("clearInterruptedTracks", "", f.turn)>>
                                 ELSE <<>>)
                      [] arm = "response.text" -> <<>>
                      [] arm = "response.data" -> <<Ev("onDataMessage", "", 0)>>
                      [] OTHER -> DefaultArm(f)
     IN /\ interrupt => InterruptRoom
        /\ currentTurnId' = IF newTurn \/ firstText THEN f.turn ELSE currentTurnId
        /\ pStream' = (pStream \/ played)
        /\ pIsPlaying' = IF played /\ ~pStream THEN TRUE ELSE pIsPlaying
        /\ wTrack' = IF played THEN f.turn ELSE wTrack
        /\ wStop' = IF played /\ ~pStream THEN FALSE ELSE wStop
        /\ pInterrupted' = IF newTurn THEN clearInterruptedTracks({f.turn}) ELSE pInterrupted
        /\ pending' = IF interrupt THEN InterruptPending ELSE pending
        /\ trace' = tr
  /\ lastOp' = Op("message", f, i)
  /\ UNCHANGED <<status, ws, pushToTalkEnabled, pushToTalkActive, canInterrupt,
                 userIsSpeaking, endUserTurn, recorderStarted, readySent, audioBuffer,
                 vad, sessionId, socks, connectPc, recording, vads, pReady,
                 resumeTimers, onDisconnectCalls, boundVars>>

(***************************************************************************)
(* connect()                                                               *)
(***************************************************************************)
\* a catch that sets the status and does not call the host, to show what C14
\* rests on
ConnectCatchStatusOnly ==
  <<Ev("console.error", "Error connecting to Layercode pipeline:", 0)>> \o _setStatus("error")
\* catch (error) of connect(): report, status error, onError, rethrow
ConnectCatch ==
  <<Ev("console.error", "Error connecting to Layercode pipeline:", 0)>>
    \o _setStatus("error") \o <<Ev("onError", "", 0)>>

\* _sendReadyIfNeeded, given the values the flags and the channel have by then
ReadyNeeded(rs, w, ss) == rs /\ ChannelOpen(w, ss) /\ ~readySent
ReadyTrace(rs, w, ss) ==
  IF ReadyNeeded(rs, w, ss) THEN <<_wsSend(Msg("client.ready", "", 0, 0), w, ss)>> ELSE <<>>

\* a MicVAD.new() call with the 2000ms timeout armed beside it
\* (fallback, amp, silence: the amplitude detector the timeout installs, its
\* isSpeakingByAmplitude and its silenceFrames; overPlayback records whether
\* the detector's last speech start came while response audio was playing)
Vad(b) == [new |-> "pending", timer |-> "armed", started |-> FALSE, destroyed |-> FALSE,
           interruptible |-> b, speaking |-> FALSE, fallback |-> FALSE,
           amp |-> FALSE, silence |-> 0, overPlayback |-> FALSE]

\* options.sessionId: the client is constructed without a sessionId option
OptionsSessionId == 0

\* the body of the authorization request: session_id is options.sessionId when
\* that is set, and absent (0) otherwise
AuthorizeRequest == <<Ev("fetch", "session_id", OptionsSessionId)>>

\* connect() up to the fetch of the authorization endpoint, for a client on
\* which connect() is called at most maxc times
connectUpTo(maxc) ==
  /\ connectPc = "idle"
  /\ nConnects < maxc
  /\ nConnects' = nConnects + 1
  /\ status' = "connecting"
  /\ currentTurnId' = 0
  /\ connectPc' = "auth"
  /\ trace' = _setStatus("connecting") \o AuthorizeRequest
  /\ lastOp' = Op("connect", NoFrame, 0)
  /\ UNCHANGED <<ws, pushToTalkEnabled, pushToTalkActive, canInterrupt, userIsSpeaking,
                 endUserTurn, recorderStarted, readySent, audioBuffer, vad, sessionId,
                 socks, recording, vads, playerVars, resumeTimers, onDisconnectCalls,
                 nChunks, nDisconnects>>

connect == connectUpTo(MaxConnects)

\* the authorization response arrives: on success the session id is saved, the
\* WebSocket created, the mode read from the config, the VAD initialized and
\* the channel handlers bound, up to await wavRecorder.begin()
Authorized(ok, trigger, ci) ==
  /\ connectPc = "auth"
  /\ LET known == trigger \in {"push_to_talk", "automatic"}
         ptt == trigger = "push_to_talk"
     IN /\ sessionId' = IF ok THEN nConnects ELSE sessionId
        /\ socks' = IF ok THEN Append(socks, Sock("CONNECTING", known)) ELSE socks
        /\ ws' = IF ok THEN Len(socks) + 1 ELSE ws
        /\ pushToTalkEnabled' = IF ok /\ known THEN ptt ELSE pushToTalkEnabled
        /\ canInterrupt' = IF ok /\ trigger = "automatic" THEN ci ELSE canInterrupt
        /\ vads' = IF ok /\ trigger = "automatic" THEN Append(vads, Vad(ci)) ELSE vads
        /\ status' = IF ok /\ known THEN status ELSE "error"
        /\ connectPc' = IF ok /\ known THEN "begin" ELSE "idle"
        /\ trace' = IF ok /\ known THEN <<>> ELSE ConnectCatch
  /\ lastOp' = Op(IF ok THEN "authorized" ELSE "authorize failed", NoFrame, 0)
  /\ UNCHANGED <<pushToTalkActive, userIsSpeaking, endUserTurn, recorderStarted,
                 readySent, currentTurnId, audioBuffer, vad, recording, playerVars,
                 resumeTimers, onDisconnectCalls, boundVars>>

\* wavRecorder.begin() settles; on success wavRecorder.record() is called
RecorderBegun(ok) ==
  /\ connectPc = "begin"
  /\ status' = IF ok THEN status ELSE "error"
  /\ connectPc' = IF ok THEN "record" ELSE "idle"
  /\ trace' = IF ok THEN <<>> ELSE ConnectCatch
  /\ lastOp' = Op("recorder begun", NoFrame, 0)
  /\ UNCHANGED <<ws, pushToTalkEnabled, pushToTalkActive, canInterrupt, userIsSpeaking,
                 endUserTurn, recorderStarted, readySent, currentTurnId, audioBuffer, vad,
                 sessionId, socks, recording, vads, playerVars, resumeTimers,
                 onDisconnectCalls, boundVars>>

\* wavRecorder.record(_handleDataAvailable) settles: chunks are delivered from
\* now on, and wavPlayer.connect() is called
RecorderRecording ==
  /\ connectPc = "record"
  /\ recording' = TRUE
  /\ connectPc' = "player"
  /\ trace' = <<>>
  /\ lastOp' = Op("recorder recording", NoFrame, 0)
  /\ UNCHANGED <<clientVars, socks, vads, playerVars, resumeTimers, onDisconnectCalls,
                 boundVars>>

\* wavPlayer.connect() settles; on success recorderStarted is set and
\* _sendReadyIfNeeded called
PlayerConnected(ok) ==
  /\ connectPc = "player"
  /\ status' = IF ok THEN status ELSE "error"
  /\ pReady' = (pReady \/ ok)
  /\ pIsPlaying' = IF ok THEN TRUE ELSE pIsPlaying
  /\ recorderStarted' = (recorderStarted \/ ok)
  /\ readySent' = (readySent \/ (ok /\ ReadyNeeded(TRUE, ws, socks)))
  /\ trace' = IF ok THEN ReadyTrace(TRUE, ws, socks) ELSE ConnectCatch
  /\ connectPc' = "idle"
  /\ lastOp' = Op("player connected", NoFrame, 0)
  /\ UNCHANGED <<ws, pushToTalkEnabled, pushToTalkActive, canInterrupt, userIsSpeaking,
                 endUserTurn, currentTurnId, audioBuffer, vad, sessionId, socks,
                 recording, vads, pStream, pInterrupted, wTrack, wStop, pending,
                 resumeTimers, onDisconnectCalls, boundVars>>

(***************************************************************************)
(* Channel events.  The handlers are closures over the client, so an event *)
(* of any socket the client ever bound reaches them.                       *)
(***************************************************************************)
\* ws.onopen
WsOpen(i) ==
  /\ i \in DOMAIN socks
  /\ socks[i].state = "CONNECTING"
  /\ LET ss == [socks EXCEPT ![i].state = "OPEN"]
         b == socks[i].bound
     IN /\ socks' = ss
        /\ status' = IF b THEN "connected" ELSE status
        /\ readySent' = (readySent \/ (b /\ ReadyNeeded(recorderStarted, ws, ss)))
        /\ trace' = IF b
                    THEN _setStatus("connected") \o <<Ev("onConnect", "", sessionId)>>
                           \o ReadyTrace(recorderStarted, ws, ss)
                    ELSE <<>>
  /\ lastOp' = Op("ws.onopen", NoFrame, i)
  /\ UNCHANGED <<ws, pushToTalkEnabled, pushToTalkActive, canInterrupt, userIsSpeaking,
                 endUserTurn, recorderStarted, currentTurnId, audioBuffer, vad, sessionId,
                 connectPc, recording, vads, playerVars, resumeTimers, onDisconnectCalls,
                 boundVars>>

\* what ws.onclose does
CloseHandler == _setStatus("disconnected") \o <<Ev("onDisconnect", "", 0)>>

\* ws.onclose: the close event of a socket, fired once
WsClose(i) ==
  /\ i \in DOMAIN socks
  /\ ~socks[i].closed
  /\ LET b == socks[i].bound
         tr == IF b THEN CloseHandler ELSE <<>>
     IN /\ socks' = [socks EXCEPT ![i].state = "CLOSED", ![i].closed = TRUE]
        /\ status' = IF b THEN "disconnected" ELSE status
        /\ trace' = tr
        /\ onDisconnectCalls' = Tally(tr)
  /\ lastOp' = Op("ws.onclose", NoFrame, i)
  /\ UNCHANGED <<ws, pushToTalkEnabled, pushToTalkActive, canInterrupt, userIsSpeaking,
                 endUserTurn, recorderStarted, readySent, currentTurnId, audioBuffer, vad,
                 sessionId, connectPc, recording, vads, playerVars, resumeTimers,
                 boundVars>>

\* what ws.onerror does and the status it leaves
ErrorHandler ==
  <<Ev("console.error", "WebSocket error:", 0)>> \o _setStatus("error")
    \o <<Ev("onError", "", 0)>>
\* an onerror that leaves the status as the open handler set it, to show what
\* C4 rests on
ErrorStatusKept == "connected"
ErrorStatus == "error"

\* ws.onerror: the connection has failed; its close event follows
WsError(i) ==
  /\ i \in DOMAIN socks
  /\ socks[i].state # "CLOSED"
  /\ LET b == socks[i].bound
     IN /\ socks' = [socks EXCEPT ![i].state = "CLOSED"]
        /\ status' = IF b THEN ErrorStatus ELSE status
        /\ trace' = IF b THEN ErrorHandler ELSE <<>>
  /\ lastOp' = Op("ws.onerror", NoFrame, i)
  /\ UNCHANGED <<ws, pushToTalkEnabled, pushToTalkActive, canInterrupt, userIsSpeaking,
                 endUserTurn, recorderStarted, readySent, currentTurnId, audioBuffer, vad,
                 sessionId, connectPc, recording, vads, playerVars, resumeTimers,
                 onDisconnectCalls, boundVars>>

(***************************************************************************)
(* disconnect()                                                            *)
(***************************************************************************)
\* WebSocket.close(): a socket not yet closed starts closing
CloseSocket(ss, w) ==
  IF ss[w].state \in {"CONNECTING", "OPEN"} THEN [ss EXCEPT ![w].state = "CLOSING"] ELSE ss

\* if (this.ws) { this.ws.close(); this._setStatus('disconnected'); this.options.onDisconnect(); }
DisconnectTrace ==
  IF ws # 0 THEN _setStatus("disconnected") \o <<Ev("onDisconnect", "", 0)>> ELSE <<>>

\* wavPlayer.disconnect() closes the AudioContext: a request the worklet has
\* not answered yet stays in the poll of getTrackSampleOffset, and whether its
\* answer still arrives is up to the browser
ContextClosed(r) == IF r.state = "posted" THEN [r EXCEPT !.state = "orphaned"] ELSE r

disconnect ==
  /\ nDisconnects < MaxDisconnects
  /\ nDisconnects' = nDisconnects + 1
  /\ vads' = IF vad # 0 THEN [vads EXCEPT ![vad].destroyed = TRUE] ELSE vads
  /\ vad' = 0
  /\ recording' = FALSE
  /\ pStream' = FALSE
  /\ pIsPlaying' = FALSE
  /\ wStop' = FALSE
  /\ currentTurnId' = 0
  /\ socks' = IF ws # 0 THEN CloseSocket(socks, ws) ELSE socks
  /\ status' = IF ws # 0 THEN "disconnected" ELSE status
  /\ trace' = DisconnectTrace
  /\ onDisconnectCalls' = Tally(DisconnectTrace)
  /\ lastOp' = Op("disconnect", NoFrame, ws)
  /\ pending' = [k \in DOMAIN pending |-> ContextClosed(pending[k])]
  /\ UNCHANGED <<ws, pushToTalkEnabled, pushToTalkActive, canInterrupt, userIsSpeaking,
                 endUserTurn, recorderStarted, readySent, audioBuffer, sessionId,
                 connectPc, pReady, pInterrupted, wTrack, resumeTimers,
                 nConnects, nChunks>>

(***************************************************************************)
(* _handleDataAvailable: the audio gate                                    *)
(***************************************************************************)
\* a gate that opens on either flag whatever the mode, to show what C9 rests on
sendAudioEitherFlag == pushToTalkActive \/ userIsSpeaking
\* const sendAudio = this.pushToTalkEnabled ? this.pushToTalkActive : this.userIsSpeaking
sendAudio == IF pushToTalkEnabled THEN pushToTalkActive ELSE userIsSpeaking

\* a captured chunk: its capture number stands for its base64 content; mode
\* notes how the capture found the client: in automatic mode, or in
\* push-to-talk mode with talk active or idle
CaptureMode ==
  IF ~pushToTalkEnabled THEN "automatic" ELSE IF pushToTalkActive THEN "talk" ELSE "idle"
Chunk(n) == [id |-> n, mode |-> CaptureMode]
AudioMsg(c) == Msg("client.audio", c.mode, c.id, 0)

\* a buffer that refuses the new chunk when full, to show what C10 rests on
BufferPushKeepOldest(buf, c) ==
  IF Len(buf) >= BufferCapacity THEN buf ELSE Append(buf, c)
\* this.audioBuffer.push(base64); if (this.audioBuffer.length > 10) this.audioBuffer.shift()
BufferPush(buf, c) ==
  LET b == Append(buf, c) IN IF Len(b) > BufferCapacity THEN Tail(b) ELSE b

\* a send branch that sends the current chunk ahead of the buffered ones, to
\* show what C11 rests on
GateMessagesCurrentFirst(buf, c) ==
  [k \in 1..(Len(buf) + 1) |-> AudioMsg(IF k = 1 THEN c ELSE buf[k - 1])]
\* the messages of the send branch: the buffered chunks, then the current one
GateMessages(buf, c) ==
  [k \in 1..(Len(buf) + 1) |-> AudioMsg(IF k <= Len(buf) THEN buf[k] ELSE c)]

\* a chunk is captured
_handleDataAvailable(maxc) ==
  /\ recording
  /\ nChunks < maxc
  /\ nChunks' = nChunks + 1
  /\ LET c == Chunk(nChunks + 1)
         ms == IF sendAudio THEN GateMessages(audioBuffer, c) ELSE <<>>
     IN /\ audioBuffer' = IF sendAudio THEN <<>> ELSE BufferPush(audioBuffer, c)
        /\ trace' = [k \in DOMAIN ms |-> _wsSend(ms[k], ws, socks)]
        /\ lastOp' = Op("capture", NoFrame, nChunks + 1)
  /\ UNCHANGED <<status, ws, pushToTalkEnabled, pushToTalkActive, canInterrupt,
                 userIsSpeaking, endUserTurn, recorderStarted, readySent, currentTurnId,
                 vad, sessionId, socks, connectPc, recording, vads, playerVars,
                 resumeTimers, onDisconnectCalls, nConnects, nDisconnects>>

(***************************************************************************)
(* Push-to-talk control                                                    *)
(***************************************************************************)
triggerUserTurnStarted ==
  /\ ~pushToTalkActive
  /\ InterruptRoom
  /\ pushToTalkActive' = TRUE
  /\ trace' = <<_wsSend(Msg("trigger.turn.start", "user", 0, 0), ws, socks)>>
                \o InterruptTrace
  /\ pending' = InterruptPending
  /\ lastOp' = Op("triggerUserTurnStarted", NoFrame, 0)
  /\ UNCHANGED <<status, ws, pushToTalkEnabled, canInterrupt, userIsSpeaking, endUserTurn,
                 recorderStarted, readySent, currentTurnId, audioBuffer, vad, sessionId,
                 socks, connectPc, recording, vads, pReady, pStream, pIsPlaying,
                 pInterrupted, wTrack, wStop, resumeTimers, onDisconnectCalls, boundVars>>

\* triggerUserTurnStarted while already active, triggerUserTurnFinished while
\* not active: the guard fails and nothing happens
triggerNoop(name) ==
  /\ name = (IF pushToTalkActive THEN "triggerUserTurnStarted" ELSE "triggerUserTurnFinished")
  /\ trace' = <<>>
  /\ lastOp' = Op(name, NoFrame, 0)
  /\ UNCHANGED <<clientVars, socks, connectPc, recording, vads, playerVars, resumeTimers,
                 onDisconnectCalls, boundVars>>

triggerUserTurnFinishedUnguarded ==
  /\ pushToTalkActive' = FALSE
  /\ trace' = <<_wsSend(Msg("trigger.turn.end", "user", 0, 0), ws, socks)>>
  /\ lastOp' = Op("triggerUserTurnFinished", NoFrame, 0)
  /\ UNCHANGED <<status, ws, pushToTalkEnabled, canInterrupt, userIsSpeaking, endUserTurn,
                 recorderStarted, readySent, currentTurnId, audioBuffer, vad, sessionId,
                 socks, connectPc, recording, vads, playerVars, resumeTimers,
                 onDisconnectCalls, boundVars>>

triggerUserTurnFinished ==
  /\ pushToTalkActive
  /\ pushToTalkActive' = FALSE
  /\ trace' = <<_wsSend(Msg("trigger.turn.end", "user", 0, 0), ws, socks)>>
  /\ lastOp' = Op("triggerUserTurnFinished", NoFrame, 0)
  /\ UNCHANGED <<status, ws, pushToTalkEnabled, canInterrupt, userIsSpeaking, endUserTurn,
                 recorderStarted, readySent, currentTurnId, audioBuffer, vad, sessionId,
                 socks, connectPc, recording, vads, playerVars, resumeTimers,
                 onDisconnectCalls, boundVars>>

(***************************************************************************)
(* _initializeVAD: the MicVAD.new() promise and the 2000ms timeout         *)
(***************************************************************************)
\* MicVAD.new().then: clearTimeout(timeout); this.vad = vad; this.vad.start()
VadReady(g) ==
  /\ g \in DOMAIN vads
  /\ vads[g].new = "pending"
  /\ vads' = [vads EXCEPT ![g].new = "resolved", ![g].started = TRUE,
                          ![g].timer = IF @ = "armed" THEN "cleared" ELSE @]
  /\ vad' = g
  /\ trace' = <<>>
  /\ lastOp' = Op("vad ready", NoFrame, g)
  /\ UNCHANGED <<status, ws, pushToTalkEnabled, pushToTalkActive, canInterrupt,
                 userIsSpeaking, endUserTurn, recorderStarted, readySent, currentTurnId,
                 audioBuffer, sessionId, socks, connectPc, recording, playerVars,
                 resumeTimers, onDisconnectCalls, boundVars>>

\* MicVAD.new().catch
VadFailed(g) ==
  /\ g \in DOMAIN vads
  /\ vads[g].new = "pending"
  /\ vads' = [vads EXCEPT ![g].new = "rejected"]
  /\ trace' = <<Ev("console.error", "Error initializing VAD:", 0)>>
  /\ lastOp' = Op("vad failed", NoFrame, g)
  /\ UNCHANGED <<clientVars, socks, connectPc, recording, playerVars, resumeTimers,
                 onDisconnectCalls, boundVars>>

\* the 2000ms timeout fires: vad_model_failed, then the amplitude fallback
VadTimeout(g) ==
  /\ g \in DOMAIN vads
  /\ vads[g].timer = "armed"
  /\ vads' = [vads EXCEPT ![g].timer = "fired", ![g].fallback = TRUE]
  /\ userIsSpeaking' = FALSE
  /\ trace' = <<Ev("console.warn", "VAD model failed to load", 0),
                _wsSend(Msg("vad_events", "vad_model_failed", 0, 0), ws, socks),
                Ev("onUserIsSpeakingChange", "false", 0)>>
  /\ lastOp' = Op("vad timeout", NoFrame, g)
  /\ UNCHANGED <<status, ws, pushToTalkEnabled, pushToTalkActive, canInterrupt,
                 endUserTurn, recorderStarted, readySent, currentTurnId, audioBuffer, vad,
                 sessionId, socks, connectPc, recording, playerVars, resumeTimers,
                 onDisconnectCalls, boundVars>>

(***************************************************************************)
(* _setupAmplitudeBasedVAD: the callback handed to                         *)
(* wavRecorder.startAmplitudeMonitoring, called with one amplitude a frame *)
(***************************************************************************)
SilenceFramesNoReset(sf, loud) ==
  IF loud THEN sf ELSE IF sf < SilenceFramesThreshold THEN sf + 1 ELSE sf

\* silenceFrames after a frame; the source counts without limit and only
\* compares with the threshold, so the count is kept up to the threshold
SilenceFrames(sf, loud) ==
  IF loud THEN 0 ELSE IF sf < SilenceFramesThreshold THEN sf + 1 ELSE sf

AmplitudeSpeakingNeverEnds(was, loud, sf) == was \/ loud

\* isSpeakingByAmplitude after a frame that leaves silenceFrames at sf
AmplitudeSpeaking(was, loud, sf) ==
  IF loud THEN TRUE ELSE was /\ ~(sf >= SilenceFramesThreshold)

\* loud: amplitude > AMPLITUDE_THRESHOLD
onAmplitude(g, loud) ==
  /\ g \in DOMAIN vads
  /\ vads[g].fallback
  /\ LET was == vads[g].amp
         sf == SilenceFrames(vads[g].silence, loud)
         now == AmplitudeSpeaking(was, loud, sf)
     IN /\ vads' = [vads EXCEPT ![g].silence = sf, ![g].amp = now]
        /\ userIsSpeaking' = IF now # was THEN now ELSE userIsSpeaking
        /\ trace' = IF now = was THEN <<>>
                    ELSE <<Ev("onUserIsSpeakingChange", IF now THEN "true" ELSE "false", 0),
                           _wsSend(Msg("vad_events", IF now THEN "vad_start" ELSE "vad_end",
                                       0, 0), ws, socks)>>
  /\ lastOp' = Op(IF loud THEN "loud frame" ELSE "silent frame", NoFrame, g)
  /\ UNCHANGED <<status, ws, pushToTalkEnabled, pushToTalkActive, canInterrupt,
                 endUserTurn, recorderStarted, readySent, currentTurnId, audioBuffer, vad,
                 sessionId, socks, connectPc, recording, playerVars, resumeTimers,
                 onDisconnectCalls, boundVars>>

(***************************************************************************)
(* The MicVAD callbacks of the two profiles                                *)
(***************************************************************************)
VadLive(g) == g \in DOMAIN vads /\ vads[g].started /\ ~vads[g].destroyed

onSpeechStart(g) ==
  /\ VadLive(g)
  /\ ~vads[g].speaking
  /\ LET m == _wsSend(Msg("vad_events", "vad_start", 0, 0), ws, socks)
         cb == Ev("onUserIsSpeakingChange", "true", 0)
     IN /\ vads' = [vads EXCEPT ![g].speaking = TRUE,
                                ![g].overPlayback = (pStream /\ pIsPlaying)]
        /\ userIsSpeaking' = TRUE
        /\ endUserTurn' = IF vads[g].interruptible THEN FALSE ELSE endUserTurn
        /\ trace' = IF vads[g].interruptible THEN <<m, cb>> ELSE <<cb, m>>
  /\ lastOp' = Op("onSpeechStart", NoFrame, g)
  /\ UNCHANGED <<status, ws, pushToTalkEnabled, pushToTalkActive, canInterrupt,
                 recorderStarted, readySent, currentTurnId, audioBuffer, vad, sessionId,
                 socks, connectPc, recording, playerVars, resumeTimers,
                 onDisconnectCalls, boundVars>>

onSpeechEnd(g) ==
  /\ VadLive(g)
  /\ vads[g].speaking
  /\ vads' = [vads EXCEPT ![g].speaking = FALSE]
  /\ endUserTurn' = vads[g].interruptible
  /\ audioBuffer' = <<>>
  /\ userIsSpeaking' = FALSE
  /\ trace' = <<Ev("onUserIsSpeakingChange", "false", 0),
                _wsSend(Msg("vad_events", "vad_end", 0, 0), ws, socks)>>
  /\ lastOp' = Op("onSpeechEnd", NoFrame, g)
  /\ UNCHANGED <<status, ws, pushToTalkEnabled, pushToTalkActive, canInterrupt,
                 recorderStarted, readySent, currentTurnId, vad, sessionId,
                 socks, connectPc, recording, playerVars, resumeTimers,
                 onDisconnectCalls, boundVars>>

\* only the interruptible profile passes an onVADMisfire handler
onVADMisfire(g) ==
  /\ VadLive(g)
  /\ vads[g].speaking
  /\ vads[g].interruptible
  /\ resumeTimers < MaxTimers
  /\ vads' = [vads EXCEPT ![g].speaking = FALSE]
  /\ userIsSpeaking' = FALSE
  /\ audioBuffer' = <<>>
  /\ resumeTimers' = resumeTimers + 1
  /\ trace' = <<Ev("onUserIsSpeakingChange", "false", 0)>>
  /\ lastOp' = Op("onVADMisfire", NoFrame, g)
  /\ UNCHANGED <<status, ws, pushToTalkEnabled, pushToTalkActive, canInterrupt,
                 endUserTurn, recorderStarted, readySent, currentTurnId, vad, sessionId,
                 socks, connectPc, recording, playerVars, onDisconnectCalls, boundVars>>

\* the vadResumeDelay timeout of onVADMisfire fires
MisfireResume ==
  /\ resumeTimers > 0
  /\ resumeTimers' = resumeTimers - 1
  /\ endUserTurn' = IF pIsPlaying THEN TRUE ELSE endUserTurn
  /\ trace' = <<>>
  /\ lastOp' = Op("misfire resume", NoFrame, 0)
  /\ UNCHANGED <<status, ws, pushToTalkEnabled, pushToTalkActive, canInterrupt,
                 userIsSpeaking, recorderStarted, readySent, currentTurnId, audioBuffer,
                 vad, sessionId, socks, connectPc, recording, vads, playerVars,
                 onDisconnectCalls, boundVars>>

(***************************************************************************)
(* The playback worklet's replies                                          *)
(***************************************************************************)
\* the worklet answers an interrupt request with write.trackId and its sample
\* offset and sets hasInterrupted; the player stores the answer under the
\* request id
OffsetReply(k, n) ==
  /\ k \in DOMAIN pending
  /\ pending[k].state \in {"posted", "orphaned"}
  /\ pending' = [pending EXCEPT ![k] = Req("replied", wTrack, n * WorkletBufferLength)]
  /\ wStop' = pStream
  /\ trace' = <<>>
  /\ lastOp' = Op("offset reply", NoFrame, k)
  /\ UNCHANGED <<clientVars, socks, connectPc, recording, vads, pReady, pStream,
                 pIsPlaying, pInterrupted, wTrack, resumeTimers, onDisconnectCalls,
                 boundVars>>

\* an offset reported in samples instead of milliseconds, to show what C16
\* rests on
OffsetInSamples(offset) == offset
\* playback_offset: offsetData.currentTime * 1000, currentTime = offset / sampleRate
OffsetMs(offset) == (offset * 1000) \div PlayerSampleRate

\* the poll of getTrackSampleOffset finds the answer; interrupt() returns and
\* _clientInterruptAssistantReplay continues after its await
InterruptReturn(k) ==
  /\ k \in DOMAIN pending
  /\ pending[k].state = "replied"
  /\ LET r == pending[k]
         m == Msg("trigger.response.audio.interrupted", "", OffsetMs(r.offset), currentTurnId)
     IN /\ pending' = [j \in 1..(Len(pending) - 1) |->
                          IF j < k THEN pending[j] ELSE pending[j + 1]]
        /\ pInterrupted' = IF r.track # 0 THEN pInterrupted \cup {r.track} ELSE pInterrupted
        /\ trace' = IF currentTurnId # 0 THEN <<_wsSend(m, ws, socks)>>
                    ELSE <<Ev("console.warn",
                              "Interruption requested but missing required data:", 0)>>
  /\ lastOp' = Op("interrupt returned", NoFrame, k)
  /\ UNCHANGED <<clientVars, socks, connectPc, recording, vads, pReady, pStream,
                 pIsPlaying, wTrack, wStop, resumeTimers, onDisconnectCalls, boundVars>>

\* the worklet posts stop (interrupted, or out of queued audio): the player
\* drops the stream and calls finishedPlayingCallback,
\* _clientResponseAudioReplayFinished
StreamStop ==
  /\ pStream
  /\ pStream' = FALSE
  /\ pIsPlaying' = FALSE
  /\ wStop' = FALSE
  /\ trace' = <<_wsSend(Msg("trigger.response.audio.replay_finished", "completed", 0, 0),
                        ws, socks)>>
  /\ lastOp' = Op("stream stop", NoFrame, 0)
  /\ UNCHANGED <<clientVars, socks, connectPc, recording, vads, pReady, pInterrupted,
                 wTrack, pending, resumeTimers, onDisconnectCalls, boundVars>>

(***************************************************************************)
(* Specifications                                                          *)
(***************************************************************************)
Triggers == {"push_to_talk", "automatic", "manual"}

\* the session: connection lifecycle, server frames, playback replies
Next ==
  \/ connect
  \/ \E ok \in BOOLEAN, t \in Triggers, ci \in BOOLEAN : Authorized(ok, t, ci)
  \/ \E ok \in BOOLEAN : RecorderBegun(ok)
  \/ RecorderRecording
  \/ \E ok \in BOOLEAN : PlayerConnected(ok)
  \/ \E i \in DOMAIN socks : WsOpen(i)
  \/ \E i \in DOMAIN socks : WsClose(i)
  \/ \E i \in DOMAIN socks : WsError(i)
  \/ \E i \in DOMAIN socks, f \in Frames : _handleWebSocketMessage(i, f)
  \/ disconnect
  \/ \E k \in DOMAIN pending, n \in 0..MaxOffset : OffsetReply(k, n)
  \/ \E k \in DOMAIN pending : InterruptReturn(k)
  \/ StreamStop

Spec == Init /\ [][Next]_vars

\* message dispatch: connection set-up, channel events and server frames
NextDispatch ==
  \/ connect
  \/ \E ok \in BOOLEAN, t \in Triggers : Authorized(ok, t, TRUE)
  \/ RecorderBegun(TRUE)
  \/ RecorderRecording
  \/ PlayerConnected(TRUE)
  \/ \E i \in DOMAIN socks : WsOpen(i)
  \/ \E i \in DOMAIN socks : WsClose(i)
  \/ \E i \in DOMAIN socks : WsError(i)
  \/ \E i \in DOMAIN socks, f \in Frames : _handleWebSocketMessage(i, f)

SpecDispatch == Init /\ [][NextDispatch]_vars

\* reconnection: two connect() calls on one client, with disconnect(),
\* push-to-talk control and the detector timeout
NextReconnect ==
  \/ connectUpTo(MaxSessions)
  \/ \E t \in {"push_to_talk", "automatic"}, ci \in BOOLEAN : Authorized(TRUE, t, ci)
  \/ \E ok \in BOOLEAN : RecorderBegun(ok)
  \/ RecorderRecording
  \/ PlayerConnected(TRUE)
  \/ \E i \in DOMAIN socks : WsOpen(i)
  \/ disconnect
  \/ triggerUserTurnStarted
  \/ triggerUserTurnFinished
  \/ \E g \in DOMAIN vads : VadTimeout(g)

SpecReconnect == Init /\ [][NextReconnect]_vars

\* the frames that drive playback and interruption
PlaybackFrames ==
  {f \in Frames : f.kind = "object" /\ f.type \in {"turn.start", "response.audio", "response.text"}}

\* interruption: playback of response audio, the two ways an interruption is
\* requested, and the worklet's replies
NextInterrupt ==
  \/ connect
  \/ \E t \in {"push_to_talk", "automatic"} : Authorized(TRUE, t, TRUE)
  \/ RecorderBegun(TRUE)
  \/ RecorderRecording
  \/ PlayerConnected(TRUE)
  \/ \E i \in DOMAIN socks : WsOpen(i)
  \/ \E i \in DOMAIN socks, f \in PlaybackFrames : _handleWebSocketMessage(i, f)
  \/ triggerUserTurnStarted
  \/ triggerUserTurnFinished
  \/ \E k \in DOMAIN pending, n \in 0..MaxOffset : OffsetReply(k, n)
  \/ \E k \in DOMAIN pending : InterruptReturn(k)
  \/ StreamStop

SpecInterrupt == Init /\ [][NextInterrupt]_vars

\* the offset poll: the interruption paths with disconnect().  The event loop
\* runs a poll that has found its answer, and the worklet of an open
\* AudioContext answers every request posted to it
NextPoll == NextInterrupt \/ disconnect

FairPoll ==
  /\ WF_vars(\E k \in 1..MaxPending : InterruptReturn(k))
  /\ WF_vars(\E k \in 1..MaxPending, n \in 0..MaxOffset :
               k \in DOMAIN pending /\ pending[k].state = "posted" /\ OffsetReply(k, n))

SpecPoll == Init /\ [][NextPoll]_vars /\ FairPoll

\* the capture path: connection lifecycle, microphone chunks, push-to-talk
\* control and voice activity
NextGate ==
  \/ connect
  \/ \E t \in {"push_to_talk", "automatic"} : Authorized(TRUE, t, TRUE)
  \/ RecorderBegun(TRUE)
  \/ RecorderRecording
  \/ PlayerConnected(TRUE)
  \/ \E i \in DOMAIN socks : WsOpen(i)
  \/ _handleDataAvailable(MaxGateChunks)
  \/ triggerUserTurnStarted
  \/ triggerUserTurnFinished
  \/ \E g \in DOMAIN vads : VadReady(g)
  \/ \E g \in DOMAIN vads : onSpeechStart(g)
  \/ \E g \in DOMAIN vads : onSpeechEnd(g)

SpecGate == Init /\ [][NextGate]_vars

\* voice activity: the detector's start-up race, its callbacks and the
\* misfire timer, with a few captured chunks
NextVad ==
  \/ connect
  \/ \E t \in Triggers, ci \in BOOLEAN : Authorized(TRUE, t, ci)
  \/ RecorderBegun(TRUE)
  \/ RecorderRecording
  \/ PlayerConnected(TRUE)
  \/ \E i \in DOMAIN socks : WsOpen(i)
  \/ \E i \in DOMAIN socks : WsClose(i)
  \/ disconnect
  \/ _handleDataAvailable(MaxChunks)
  \/ triggerUserTurnStarted
  \/ triggerUserTurnFinished
  \/ \E name \in {"triggerUserTurnStarted", "triggerUserTurnFinished"} : triggerNoop(name)
  \/ \E g \in DOMAIN vads : VadReady(g)
  \/ \E g \in DOMAIN vads : VadFailed(g)
  \/ \E g \in DOMAIN vads : VadTimeout(g)
  \/ \E g \in DOMAIN vads : onSpeechStart(g)
  \/ \E g \in DOMAIN vads : onSpeechEnd(g)
  \/ \E g \in DOMAIN vads : onVADMisfire(g)
  \/ MisfireResume

SpecVad == Init /\ [][NextVad]_vars

\* the detector's start-up race and the amplitude fallback, in one session
NextFallback ==
  \/ connect
  \/ \E t \in Triggers, ci \in BOOLEAN : Authorized(TRUE, t, ci)
  \/ RecorderBegun(TRUE)
  \/ RecorderRecording
  \/ PlayerConnected(TRUE)
  \/ \E i \in DOMAIN socks : WsOpen(i)
  \/ \E g \in DOMAIN vads : VadReady(g)
  \/ \E g \in DOMAIN vads : VadFailed(g)
  \/ \E g \in DOMAIN vads : VadTimeout(g)
  \/ \E g \in DOMAIN vads, loud \in BOOLEAN : onAmplitude(g, loud)

SpecFallback == Init /\ [][NextFallback]_vars

\* speech ends: the detectors of an automatic session beside the capture path
NextSpeechEnd ==
  \/ connect
  \/ \E ci \in BOOLEAN : Authorized(TRUE, "automatic", ci)
  \/ RecorderBegun(TRUE)
  \/ RecorderRecording
  \/ PlayerConnected(TRUE)
  \/ \E i \in DOMAIN socks : WsOpen(i)
  \/ _handleDataAvailable(MaxChunks)
  \/ \E g \in DOMAIN vads : VadReady(g)
  \/ \E g \in DOMAIN vads : VadTimeout(g)
  \/ \E g \in DOMAIN vads : onSpeechStart(g)
  \/ \E g \in DOMAIN vads : onSpeechEnd(g)
  \/ \E g \in DOMAIN vads, loud \in BOOLEAN : onAmplitude(g, loud)

SpecSpeechEnd == Init /\ [][NextSpeechEnd]_vars

\* barge-in: the detector's callbacks while response audio is played
NextBargeIn ==
  \/ connect
  \/ \E ci \in BOOLEAN : Authorized(TRUE, "automatic", ci)
  \/ RecorderBegun(TRUE)
  \/ RecorderRecording
  \/ PlayerConnected(TRUE)
  \/ \E i \in DOMAIN socks : WsOpen(i)
  \/ \E i \in DOMAIN socks, f \in PlaybackFrames : _handleWebSocketMessage(i, f)
  \/ \E g \in DOMAIN vads : VadReady(g)
  \/ \E g \in DOMAIN vads : onSpeechStart(g)
  \/ \E g \in DOMAIN vads : onSpeechEnd(g)
  \/ \E g \in DOMAIN vads : onVADMisfire(g)
  \/ MisfireResume
  \/ \E k \in DOMAIN pending, n \in 0..MaxOffset : OffsetReply(k, n)
  \/ \E k \in DOMAIN pending : InterruptReturn(k)
  \/ StreamStop

SpecBargeIn == Init /\ [][NextBargeIn]_vars

\* sessions in a row on one client: connect(), capture under push-to-talk
\* control or the detector's speech events, disconnect(), connect() again
NextResume ==
  \/ connectUpTo(MaxSessions)
  \/ \E t \in {"push_to_talk", "automatic"} : Authorized(TRUE, t, TRUE)
  \/ RecorderBegun(TRUE)
  \/ RecorderRecording
  \/ PlayerConnected(TRUE)
  \/ \E i \in DOMAIN socks : WsOpen(i)
  \/ disconnect
  \/ _handleDataAvailable(MaxChunks)
  \/ triggerUserTurnStarted
  \/ triggerUserTurnFinished

SpecResume == Init /\ [][NextResume]_vars

\* push-to-talk control: both calls in any order, repeated ones included,
\* beside playback of the response audio of one turn and the worklet's replies
NextTalk ==
  \/ connect
  \/ Authorized(TRUE, "push_to_talk", TRUE)
  \/ RecorderBegun(TRUE)
  \/ RecorderRecording
  \/ PlayerConnected(TRUE)
  \/ \E i \in DOMAIN socks : WsOpen(i)
  \/ \E i \in DOMAIN socks :
       _handleWebSocketMessage(i, Frame("object", "response.audio", "", 1))
  \/ triggerUserTurnStarted
  \/ triggerUserTurnFinished
  \/ \E name \in {"triggerUserTurnStarted", "triggerUserTurnFinished"} : triggerNoop(name)
  \/ \E k \in DOMAIN pending : OffsetReply(k, 1)
  \/ \E k \in DOMAIN pending : InterruptReturn(k)
  \/ StreamStop

SpecTalk == Init /\ [][NextTalk]_vars

\* teardown: one automatic session that is disconnected after connect() has
\* returned, with the detector's start-up still under way
NextTeardown ==
  \/ connectUpTo(1)
  \/ \E ci \in BOOLEAN : Authorized(TRUE, "automatic", ci)
  \/ RecorderBegun(TRUE)
  \/ RecorderRecording
  \/ PlayerConnected(TRUE)
  \/ \E i \in DOMAIN socks : WsOpen(i)
  \/ \E i \in DOMAIN socks : WsClose(i)
  \/ (recorderStarted /\ disconnect)
  \/ \E g \in DOMAIN vads : VadReady(g)
  \/ \E g \in DOMAIN vads : VadFailed(g)
  \/ \E g \in DOMAIN vads : VadTimeout(g)
  \/ \E g \in DOMAIN vads : onSpeechStart(g)
  \/ \E g \in DOMAIN vads : onSpeechEnd(g)

SpecTeardown == Init /\ [][NextTeardown]_vars

(***************************************************************************)
(* Claims about _handleWebSocketMessage and the error taxonomy             *)
(***************************************************************************)
\* the step just taken delivered frame f to _handleWebSocketMessage
Delivered(op, f) == op.op = "message" /\ op.frame = f
Errors(tr) == Count(tr, "console.error")
Reports(tr, level, text, arg) ==
  Cardinality({k \in DOMAIN tr : tr[k].ev = level /\ tr[k].text = text /\ tr[k].arg = arg})

\* C1: a frame that parses as JSON and whose type is absent, null, empty or
\* not a known variant produces no error-severity report, does not invoke
\* onError, and leaves the connection status unchanged.
C1_UnhandledMessageIsNotAnError ==
  [][\A f \in Frames :
       (Delivered(lastOp', f) /\ f.kind = "object"
          /\ f.type \in UnknownTypes \cup MissingTypes)
         => /\ Errors(trace') = 0
            /\ Count(trace', "onError") = 0
            /\ status' = status]_vars

\* C2: every message handled by the default arm produces exactly one
\* diagnostic-level (console.debug) report: 'received message without type'
\* when the type is absent, null or empty, else 'received unhandled message
\* type' with that type.
C2_DefaultArmReportsOnceAtDebugLevel ==
  \A f \in Frames :
    (Delivered(lastOp, f) /\ f.kind = "object" /\ SwitchArm(f) = "default")
      => /\ Count(trace, "console.debug") = 1
         /\ IF f.type \in MissingTypes
            THEN Reports(trace, "console.debug", "received message without type", "") = 1
            ELSE Reports(trace, "console.debug", "received unhandled message type", f.type) = 1

\* C3: a frame that is not valid JSON produces exactly one error-level report
\* and exactly one onError invocation; no handler arm runs (nothing else is
\* logged, called or sent, the player is not touched) and no turn state changes.
C3_NonJsonFrameReportedOnce ==
  [][\A f \in Frames :
       (Delivered(lastOp', f) /\ JSONParseThrows(f))
         => /\ Errors(trace') = 1
            /\ Reports(trace', "console.error", "Error processing WebSocket message:", "") = 1
            /\ Count(trace', "onError") = 1
            /\ Len(trace') = 2
            /\ UNCHANGED <<turnVars, audioBuffer, playerVars>>]_vars

\* a non-JSON frame has just been handled on a connected client
C3_Witness ==
  /\ lastOp.op = "message"
  /\ JSONParseThrows(lastOp.frame)
  /\ trace = <<Ev("console.error", "Error processing WebSocket message:", 0),
               Ev("onError", "", 0)>>

\* the three ProtocolError conditions, as the step just taken
AuthorizationFailed(op) == op.op = "authorize failed"
TransportError(op, ss) == op.op = "ws.onerror" /\ ss[op.sock].bound
NonJsonFrame(op) == op.op = "message" /\ JSONParseThrows(op.frame)

\* C4 as stated: every ProtocolError condition (non-JSON frame, failed
\* authorization call, channel transport error) sets the status to error and
\* invokes onError.
C4_EveryProtocolErrorSetsStatusError ==
  (AuthorizationFailed(lastOp) \/ TransportError(lastOp, socks) \/ NonJsonFrame(lastOp))
    => (status = "error" /\ Count(trace, "onError") = 1)

\* C4 amended: a failed authorization call and a channel transport error set
\* the status to error and invoke onError once; a non-JSON frame invokes
\* onError once and leaves the status as it was.
C4_ProtocolErrorStatus ==
  [][/\ (AuthorizationFailed(lastOp') \/ TransportError(lastOp', socks'))
          => (status' = "error" /\ Count(trace', "onError") = 1
                /\ Count(trace', "onStatusChange") = 1)
     /\ NonJsonFrame(lastOp')
          => (status' = status /\ Count(trace', "onError") = 1
                /\ Count(trace', "onStatusChange") = 0)]_vars

\* a transport error has just moved a connected client to status error
C4_Witness ==
  /\ TransportError(lastOp, socks)
  /\ status = "error"
  /\ Count(trace, "onError") = 1

\* C5: a frame whose type is a known server variant (turn.start, turn.end,
\* response.audio, response.text, response.data) produces no error-level
\* report, and its transition happens exactly once: response.data reaches
\* onDataMessage once, response.audio reaches the player once.
C5_KnownVariantsHandledOnce ==
  \A f \in Frames :
    (Delivered(lastOp, f) /\ f.kind = "object" /\ f.type \in KnownTypes)
      => /\ Errors(trace) = 0
         /\ Count(trace, "onError") = 0
         /\ f.type = "response.data" => Count(trace, "onDataMessage") = 1
         /\ f.type = "response.audio" => Count(trace, "add16BitPCM") = 1

(***************************************************************************)
(* Claims about disconnect()                                               *)
(***************************************************************************)
\* C6: when disconnect() is called twice in succession on a connected client,
\* the second call is a no-op as far as callbacks and status changes go:
\* onDisconnect is invoked exactly once in total.
C6_SecondDisconnectIsNoop ==
  [][(/\ lastOp.op = "disconnect" /\ lastOp.sock # 0
      /\ lastOp'.op = "disconnect" /\ nDisconnects' = nDisconnects + 1)
       => /\ trace' = <<>>
          /\ status' = status
          /\ onDisconnectCalls' = onDisconnectCalls]_vars

\* C7: a single disconnect() on a connected client, together with the close
\* event that ws.close() then delivers to ws.onclose, results in exactly one
\* onDisconnect invocation and exactly one transition to disconnected: the
\* close handler of the socket disconnect() closed adds neither.
C7_DisconnectAndCloseFireOnce ==
  [][(/\ lastOp'.op = "ws.onclose"
      /\ socks[lastOp'.sock].bound
      /\ socks[lastOp'.sock].state = "CLOSING"
      /\ nDisconnects = 1)
       => /\ onDisconnectCalls' = 1
          /\ Count(trace', "onStatusChange") = 0]_vars

(***************************************************************************)
(* Claims about the audio gate                                             *)
(***************************************************************************)
AudioSent(tr) == {k \in DOMAIN tr : tr[k].ev = "_wsSend" /\ tr[k].text = "client.audio"}

\* C8: in push-to-talk mode a captured chunk is transmitted iff
\* pushToTalkActive was true when it was captured: no chunk captured while it
\* was false is ever transmitted, and (the channel being open) every chunk
\* captured while it was true is sent by its own capture callback.
C8_PushToTalkSendsOnlyTalkChunks ==
  /\ \A k \in AudioSent(trace) : trace[k].sock # 0 => trace[k].arg # "idle"
  /\ (lastOp.op = "capture" /\ pushToTalkEnabled /\ pushToTalkActive /\ ChannelOpen(ws, socks))
       => \E k \in AudioSent(trace) :
            trace[k].n = lastOp.sock /\ trace[k].arg = "talk" /\ trace[k].sock = ws

\* C9: the transmit/buffer decision of every captured chunk is
\* pushToTalkEnabled ? pushToTalkActive : userIsSpeaking: client.audio is
\* emitted only inside a capture callback in which that value is true (so in
\* automatic mode never while userIsSpeaking is false), and a capture callback
\* in which it is true emits its chunk, one in which it is false emits nothing
\* and buffers the chunk.
C9_GateDecision ==
  [][LET decision == IF pushToTalkEnabled THEN pushToTalkActive ELSE userIsSpeaking
         captured == lastOp'.op = "capture" /\ nChunks' = nChunks + 1
     IN /\ AudioSent(trace') # {} => (captured /\ decision)
        /\ (AudioSent(trace') # {} /\ ~pushToTalkEnabled) => userIsSpeaking
        /\ (captured /\ decision)
             => /\ trace'[Len(trace')].text = "client.audio"
                /\ trace'[Len(trace')].n = nChunks'
                /\ audioBuffer' = <<>>
        /\ (captured /\ ~decision)
             => /\ trace' = <<>>
                /\ audioBuffer' # <<>>
                /\ audioBuffer'[Len(audioBuffer')].id = nChunks']_vars

\* in automatic mode a chunk captured while the user speaks has been emitted
C9_Witness ==
  /\ lastOp.op = "capture"
  /\ ~pushToTalkEnabled
  /\ userIsSpeaking
  /\ ~pushToTalkActive
  /\ AudioSent(trace) # {}
  /\ trace[Len(trace)].n = nChunks

\* C10: the pre-roll audioBuffer never holds more than 10 chunks and always
\* holds the most recent captured chunks in capture order; a chunk appended to
\* a full buffer evicts the oldest one.
C10_BufferBoundedMostRecent ==
  /\ [](/\ Len(audioBuffer) <= 10
        /\ \A k \in DOMAIN audioBuffer : audioBuffer[k].id = nChunks - Len(audioBuffer) + k)
  /\ [][(lastOp'.op = "capture" /\ nChunks' = nChunks + 1 /\ Len(audioBuffer) = 10
           /\ audioBuffer' # <<>>)
          => /\ Len(audioBuffer') = 10
             /\ \A k \in 1..9 : audioBuffer'[k] = audioBuffer[k + 1]
             /\ audioBuffer'[10].id = nChunks']_vars

\* a chunk has just been appended to a full buffer: the first chunk is gone
C10_Witness ==
  /\ lastOp.op = "capture"
  /\ nChunks = 11
  /\ Len(audioBuffer) = 10
  /\ audioBuffer[1].id = 2
  /\ audioBuffer[10].id = 11

\* C11: a chunk captured with sendAudio true emits the buffered chunks first,
\* oldest first, each as its own client.audio message, then the current chunk,
\* and leaves the buffer empty.  A step puts nothing into the buffer but the
\* chunk it has just captured, so a chunk that was emitted never returns to
\* the buffer: over a run the emitted chunks are a subsequence of the captured
\* ones, in capture order and without repetition.
C11_FlushOldestFirstThenCurrent ==
  [][/\ (/\ lastOp'.op = "capture" /\ nChunks' = nChunks + 1
         /\ (IF pushToTalkEnabled THEN pushToTalkActive ELSE userIsSpeaking))
          => /\ Len(trace') = Len(audioBuffer) + 1
             /\ \A k \in DOMAIN trace' :
                  /\ trace'[k].ev = "_wsSend" /\ trace'[k].text = "client.audio"
                  /\ trace'[k].n = (IF k <= Len(audioBuffer) THEN audioBuffer[k].id
                                    ELSE nChunks')
                  /\ \A j \in 1..(k - 1) : trace'[j].n < trace'[k].n
             /\ audioBuffer' = <<>>
     /\ \A k \in DOMAIN audioBuffer' :
          \/ \E j \in DOMAIN audioBuffer : audioBuffer[j] = audioBuffer'[k]
          \/ (lastOp'.op = "capture" /\ audioBuffer'[k].id = nChunks'
                /\ nChunks' = nChunks + 1 /\ k = Len(audioBuffer'))
     /\ \A k \in DOMAIN trace' :
          (trace'[k].ev = "_wsSend" /\ trace'[k].text = "client.audio") =>
             /\ lastOp'.op = "capture"
             /\ trace'[k].n \in {audioBuffer[j].id : j \in DOMAIN audioBuffer} \cup {nChunks'}
             /\ trace'[k].n > nChunks - Len(audioBuffer)
             /\ audioBuffer' = <<>>]_vars

\* two buffered chunks have just been flushed ahead of the current one
C11_Witness ==
  /\ lastOp.op = "capture"
  /\ audioBuffer = <<>>
  /\ Len(trace) = 3
  /\ trace[1].n = nChunks - 2
  /\ trace[2].n = nChunks - 1
  /\ trace[3].n = nChunks

(***************************************************************************)
(* Claims about the connection lifecycle                                   *)
(***************************************************************************)
ReadySent(tr) == {k \in DOMAIN tr : tr[k].ev = "_wsSend" /\ tr[k].text = "client.ready"}

\* C12: during each connect() client.ready is transmitted exactly once and
\* not before the capture pipeline has started and the channel is open: when
\* connect() runs to its end with its channel already open, that step hands
\* exactly one client.ready to the channel, and client.ready is only ever
\* handed to the open channel by the end of connect() or by ws.onopen.
C12_ReadyOncePerConnect ==
  [][LET startedLast == /\ lastOp'.op = "player connected"
                        /\ Count(trace', "onError") = 0
                        /\ ChannelOpen(ws, socks)
     IN /\ startedLast => Cardinality(ReadySent(trace')) = 1
        /\ ReadySent(trace') # {}
             => /\ lastOp'.op \in {"player connected", "ws.onopen"}
                /\ recorderStarted'
                /\ \A k \in ReadySent(trace') : trace'[k].sock = ws' /\ ChannelOpen(ws', socks')]_vars

\* C13: the status only takes the values disconnected, connecting, connected
\* and error, and it becomes connected only from connecting: never from error
\* or disconnected, as when the channel opens after connect() has failed.
C13_ConnectedOnlyFromConnecting ==
  /\ [](status \in {"disconnected", "connecting", "connected", "error"})
  /\ [][(status' = "connected" /\ status # "connected") => status = "connecting"]_vars

\* C14: when the authorization call returns a non-2xx response, connect()
\* fails: the status becomes error, onError is invoked exactly once, connect()
\* ends there, and no channel is created, no speech detector initialized and
\* neither capture nor playback started.
C14_AuthorizationFailureFailsConnect ==
  [][AuthorizationFailed(lastOp')
       => /\ status' = "error"
          /\ Count(trace', "onError") = 1
          /\ Count(trace', "onStatusChange") = 1
          /\ connectPc = "auth" /\ connectPc' = "idle"
          /\ UNCHANGED <<socks, ws, vads, vad, recording, recorderStarted, playerVars,
                         sessionId>>]_vars

\* the first connect() of a client has just failed at authorization
C14_Witness ==
  /\ AuthorizationFailed(lastOp)
  /\ status = "error"
  /\ connectPc = "idle"
  /\ socks = <<>>
  /\ vads = <<>>
  /\ ~recording /\ ~pReady

\* C15: disconnect() is safe while connect() is suspended: in the callback
\* that follows a disconnect() made mid-connect, the client does not go on to
\* create a channel, start capture or reach status connected.
C15_DisconnectCancelsConnect ==
  [][(lastOp.op = "disconnect" /\ connectPc # "idle")
       => /\ Len(socks') = Len(socks)
          /\ ~recording'
          /\ status' # "connected"]_vars

(***************************************************************************)
(* Claims about interruption and error propagation                         *)
(***************************************************************************)
InterruptedSent(tr) ==
  {k \in DOMAIN tr : tr[k].ev = "_wsSend" /\ tr[k].text = "trigger.response.audio.interrupted"}

\* C16: _clientInterruptAssistantReplay emits trigger.response.audio.interrupted
\* iff the offset query returned data and currentTurnId is set; the message
\* carries the current turn id and the offset in milliseconds (samples * 1000
\* / sample rate); when the query returns null or no turn id is set, no such
\* message is sent, onError is not invoked and the status is unchanged.
C16_InterruptedIffOffsetAndTurn ==
  [][LET returned == lastOp'.op = "interrupt returned"
         k == lastOp'.sock
         noData == Count(trace', "wavPlayer.interrupt") = 1 /\ ~pStream
     IN /\ (returned /\ currentTurnId # 0)
             => /\ Cardinality(InterruptedSent(trace')) = 1
                /\ \A j \in InterruptedSent(trace') :
                     /\ trace'[j].turn = currentTurnId
                     /\ trace'[j].n = (pending[k].offset * 1000) \div PlayerSampleRate
        /\ ((returned /\ currentTurnId = 0) \/ noData)
             => /\ InterruptedSent(trace') = {}
                /\ Count(trace', "console.warn") = 1
        /\ (returned \/ noData)
             => (Count(trace', "onError") = 0 /\ status' = status)
        /\ InterruptedSent(trace') # {} => (returned /\ currentTurnId # 0)]_vars

\* an interruption of turn 1 at one worklet buffer (128 samples, 8 ms) has
\* just been reported
C16_Witness ==
  /\ lastOp.op = "interrupt returned"
  /\ currentTurnId = 1
  /\ \E j \in InterruptedSent(trace) : trace[j].n = 8 /\ trace[j].turn = 1

\* C17: onError is invoked, and the status flipped to error, only for a
\* non-JSON frame, an authorization failure or a channel transport error; no
\* other event does either, in particular not a failure inside a message
\* handler arm.  (A frame that is not a JSON object and an authorization
\* response with an unknown trigger are counted with the first two here.)
C17_OnErrorOnlyForProtocolErrors ==
  (\/ Count(trace, "onError") > 0
   \/ \E k \in DOMAIN trace : trace[k].ev = "onStatusChange" /\ trace[k].text = "error")
    => \/ AuthorizationFailed(lastOp) \/ lastOp.op = "authorized"
       \/ TransportError(lastOp, socks)
       \/ NonJsonFrame(lastOp)
       \/ (lastOp.op = "message" /\ TypeReadThrows(lastOp.frame))

\* C18: when the 2000ms timeout of _initializeVAD fires (the engine did not
\* become ready in time; a rejected MicVAD.new leaves the timeout armed), the
\* callback hands exactly one vad_events/vad_model_failed message to _wsSend
\* and installs the amplitude fallback, whose callback goes on producing
\* vad_start at the first loud frame and vad_end at the 30th silent frame in
\* a row; neither the rejection, the timeout nor the fallback invokes onError
\* or changes the status.
VadEvents(tr, e) ==
  {k \in DOMAIN tr : tr[k].ev = "_wsSend" /\ tr[k].text = "vad_events" /\ tr[k].arg = e}

C18_TimeoutFallsBackToAmplitude ==
  [][LET g == lastOp'.sock
         op == lastOp'.op
     IN /\ op = "vad failed" =>
             /\ vads'[g].timer = vads[g].timer
             /\ vads[g].timer \in {"armed", "fired"}
             /\ VadEvents(trace', "vad_model_failed") = {}
        /\ op = "vad timeout" =>
             /\ vads[g].new # "resolved"
             /\ ~vads[g].started
             /\ Cardinality(VadEvents(trace', "vad_model_failed")) = 1
             /\ vads'[g].fallback
             /\ ~vads'[g].amp
        /\ (op = "loud frame" /\ ~vads[g].amp) =>
             /\ Cardinality(VadEvents(trace', "vad_start")) = 1
             /\ userIsSpeaking'
        /\ (op = "silent frame" /\ vads[g].amp
              /\ vads[g].silence + 1 >= SilenceFramesThreshold) =>
             /\ Cardinality(VadEvents(trace', "vad_end")) = 1
             /\ ~userIsSpeaking'
        /\ VadEvents(trace', "vad_model_failed") # {} => op = "vad timeout"
        /\ op \in {"vad failed", "vad timeout", "loud frame", "silent frame"} =>
             /\ Count(trace', "onError") = 0
             /\ Count(trace', "onStatusChange") = 0
             /\ status' = status]_vars

\* the engine was rejected, the timeout fired, and the fallback has produced a
\* speech start and, 30 silent frames later, the speech end
C18_Witness ==
  /\ lastOp.op = "silent frame"
  /\ vads[lastOp.sock].new = "rejected"
  /\ vads[lastOp.sock].timer = "fired"
  /\ vads[lastOp.sock].fallback
  /\ vads[lastOp.sock].silence = SilenceFramesThreshold
  /\ VadEvents(trace, "vad_end") # {}
  /\ ~userIsSpeaking
  /\ ~pushToTalkEnabled

\* C19: while the client is in push-to-talk mode no step creates a detector
\* (MicVAD.new with its 2000ms timeout), installs the amplitude fallback, or
\* hands a vad_events message (vad_start, vad_end, vad_model_failed) to _wsSend.
C19_PushToTalkHasNoDetector ==
  [][pushToTalkEnabled' =>
       /\ Len(vads') = Len(vads)
       /\ \A g \in DOMAIN vads : vads'[g].fallback => vads[g].fallback
       /\ \A k \in DOMAIN trace' :
            ~(trace'[k].ev = "_wsSend" /\ trace'[k].text = "vad_events")]_vars

\* C20: a connect() that follows an earlier session leaves no flag of that
\* session behind: when it has started, pushToTalkActive, userIsSpeaking and
\* endUserTurn are false and currentTurnId is unset; once the new session is
\* configured as push-to-talk, canInterrupt is false; and currentTurnId is
\* unset after disconnect().
C20_ConnectResetsTurnState ==
  [][/\ (lastOp'.op = "connect" /\ nConnects' > 1) =>
          /\ currentTurnId' = 0
          /\ ~pushToTalkActive'
          /\ ~userIsSpeaking'
          /\ ~endUserTurn'
     /\ (lastOp'.op = "authorized" /\ nConnects > 1 /\ pushToTalkEnabled') => ~canInterrupt'
     /\ lastOp'.op = "disconnect" => currentTurnId' = 0]_vars

(***************************************************************************)
(* Claims about barge-in, playback and the detectors                       *)
(***************************************************************************)
\* C21: in interruptible automatic mode a speech start that arrives while
\* response audio is playing invokes wavPlayer.pause() before the vad_start
\* message is handed to the channel.
C21_SpeechStartPausesPlayback ==
  [][(/\ lastOp'.op = "onSpeechStart"
      /\ vads[lastOp'.sock].interruptible
      /\ pStream /\ pIsPlaying)
       => \E k \in DOMAIN trace' :
            /\ trace'[k].ev = "wavPlayer.pause"
            /\ \A j \in VadEvents(trace', "vad_start") : k < j]_vars

\* C22: a misfire clears userIsSpeaking and empties the pre-roll buffer
\* without touching playback; when the vadResumeDelay timeout of a misfire
\* expires and the misfired speech had started over playing response audio
\* (the case in which the speech start is to pause playback), wavPlayer.play()
\* is invoked.
C22_MisfireResumesPlayback ==
  [][/\ lastOp'.op = "onVADMisfire" =>
          /\ ~userIsSpeaking'
          /\ audioBuffer' = <<>>
          /\ Count(trace', "wavPlayer.play") = 0
     /\ (/\ lastOp'.op = "misfire resume"
         /\ \E g \in DOMAIN vads : vads[g].overPlayback /\ ~vads[g].speaking)
          => Count(trace', "wavPlayer.play") = 1]_vars

\* C23: an inbound turn.start invokes the interruption routine exactly when
\* its role is user, push-to-talk is not enabled and canInterrupt is true; in
\* every other case it invokes nothing, sends nothing and changes no turn state.
C23_TurnStartInterruptsIffPermitted ==
  [][(lastOp'.op = "message" /\ lastOp'.frame.kind = "object"
        /\ lastOp'.frame.type = "turn.start")
       => IF lastOp'.frame.role = "user" /\ ~pushToTalkEnabled /\ canInterrupt
          THEN Count(trace', "wavPlayer.interrupt") = 1
          ELSE /\ trace' = <<>>
               /\ pending' = pending
               /\ UNCHANGED turnVars]_vars

AudioFrame(op) ==
  op.op = "message" /\ op.frame.kind = "object" /\ op.frame.type = "response.audio"

TextFrame(op) ==
  op.op = "message" /\ op.frame.kind = "object" /\ op.frame.type = "response.text"

\* C25: a response.text message sets currentTurnId from its turn id when
\* currentTurnId is unset; when it is set, to the same or to another turn, the
\* message changes no state; in both cases it sends nothing, invokes nothing
\* and touches neither the player nor its tracks.
C25_TextSetsTurnOnlyWhenUnset ==
  [][TextFrame(lastOp') =>
       /\ currentTurnId' = (IF currentTurnId = 0 THEN lastOp'.frame.turn ELSE currentTurnId)
       /\ trace' = <<>>
       /\ UNCHANGED <<status, ws, pushToTalkEnabled, pushToTalkActive, canInterrupt,
                      userIsSpeaking, endUserTurn, recorderStarted, readySent, audioBuffer,
                      vad, sessionId, socks, connectPc, recording, vads, playerVars,
                      resumeTimers, onDisconnectCalls>>]_vars

\* text of turn 2 has arrived while turn 1 was current, set from audio that
\* is playing, and turn 1 still is current
C25_Witness ==
  /\ TextFrame(lastOp)
  /\ lastOp.frame.turn = 2
  /\ currentTurnId = 1
  /\ pStream /\ wTrack = 1

\* C26: a detector whose 2000ms timeout has fired and installed the
\* amplitude fallback is never started, also when MicVAD.new resolves late:
\* no detector generation has both its engine started and its fallback
\* installed.
C26_EngineAbandonedAfterFallback ==
  \A g \in DOMAIN vads : ~(vads[g].fallback /\ vads[g].started)

\* C27: the handling of an inbound message begins only when the handling of
\* the messages before it is complete: no message is handled while the
\* turn.start handler of an earlier message is still awaiting the playback
\* offset of its interruption.
C27_MessagesHandledOneAtATime ==
  [][lastOp'.op = "message" => pending = <<>>]_vars

\* C28: every call of wavPlayer.interrupt() that waits for an offset reply
\* eventually returns, also when the player is disconnected meanwhile: a
\* pending offset query does not stay pending forever.
C28_OffsetQueryReturns == (pending # <<>>) ~> (pending = <<>>)

\* C29: every speech end, of either MicVAD profile or of the amplitude
\* fallback, hands exactly one vad_end to the channel, after userIsSpeaking
\* has been cleared and reported, and leaves the pre-roll buffer empty.
SpeechEnds(op, vs) ==
  \/ op.op = "onSpeechEnd"
  \/ (op.op = "silent frame" /\ vs[op.sock].amp
        /\ vs[op.sock].silence + 1 >= SilenceFramesThreshold)

C29_SpeechEndClearsThenSends ==
  [][SpeechEnds(lastOp', vads) =>
       /\ Cardinality(VadEvents(trace', "vad_end")) = 1
       /\ ~userIsSpeaking'
       /\ \A j \in VadEvents(trace', "vad_end") :
            \E k \in 1..(j - 1) :
              trace'[k].ev = "onUserIsSpeakingChange" /\ trace'[k].text = "false"
       /\ audioBuffer' = <<>>]_vars

\* C30: the amplitude fallback counts the frames at or below the threshold
\* since the last frame above it; it emits vad_start, with userIsSpeaking
\* true, at a frame above the threshold while it is not speaking, and vad_end,
\* with userIsSpeaking false, at the 30th frame in a row at or below the
\* threshold while it is speaking, and at no other frame; it starts out not
\* speaking, so its vad_start and vad_end alternate, vad_start first.
AmpFrame(op) == op.op \in {"loud frame", "silent frame"}

C30_FallbackHysteresis ==
  [][/\ AmpFrame(lastOp') =>
          LET v == vads[lastOp'.sock]
              w == vads'[lastOp'.sock]
              loud == lastOp'.op = "loud frame"
              starts == Cardinality(VadEvents(trace', "vad_start"))
              ends == Cardinality(VadEvents(trace', "vad_end"))
          IN /\ v.fallback
             /\ w.silence = (IF loud THEN 0
                             ELSE IF v.silence < SilenceFramesThreshold THEN v.silence + 1
                             ELSE v.silence)
             /\ v.amp => v.silence < SilenceFramesThreshold
             /\ starts = (IF loud /\ ~v.amp THEN 1 ELSE 0)
             /\ ends = (IF ~loud /\ v.amp /\ v.silence = SilenceFramesThreshold - 1
                        THEN 1 ELSE 0)
             /\ starts = 1 => (~v.amp /\ w.amp /\ userIsSpeaking')
             /\ ends = 1 => (v.amp /\ ~w.amp /\ ~userIsSpeaking')
             /\ (starts = 0 /\ ends = 0) =>
                  (w.amp = v.amp /\ userIsSpeaking' = userIsSpeaking /\ trace' = <<>>)
     /\ \A g \in DOMAIN vads' :
          (vads'[g].fallback /\ (g \notin DOMAIN vads \/ ~vads[g].fallback))
             => (~vads'[g].amp /\ vads'[g].silence = 0)]_vars

\* the fallback ends a speech at the 30th silent frame in a row, while the
\* engine has still not answered
C30_Witness ==
  /\ lastOp.op = "silent frame"
  /\ VadEvents(trace, "vad_end") # {}
  /\ ~vads[lastOp.sock].amp
  /\ vads[lastOp.sock].silence = SilenceFramesThreshold
  /\ ~userIsSpeaking
  /\ vads[lastOp.sock].new = "pending"

(***************************************************************************)
(* Claims about reconnection, playback and teardown                        *)
(***************************************************************************)
\* C31: once connect() has succeeded and saved the session id the server
\* returned, the authorization request of a later connect() on the same client
\* carries that session id
C31_ReconnectSendsSavedSession ==
  [][(lastOp'.op = "connect" /\ recorderStarted /\ sessionId # 0) =>
       \E k \in DOMAIN trace' :
         /\ trace'[k].ev = "fetch"
         /\ trace'[k].text = "session_id"
         /\ trace'[k].n = sessionId]_vars

\* the trigger.response.audio.replay_finished messages of a trace that
\* reached the channel
ReplayFinishedSent(tr) ==
  {k \in DOMAIN tr : /\ tr[k].ev = "_wsSend"
                     /\ tr[k].text = "trigger.response.audio.replay_finished"
                     /\ tr[k].sock # 0}

\* C32: when the worklet stops because interrupt() made it stop, no
\* replay_finished message with reason completed is sent: that message is
\* kept for playback that ran to the end of the queued audio
C32_InterruptionIsNotCompletion ==
  [][(lastOp'.op = "stream stop" /\ wStop) => ReplayFinishedSent(trace') = {}]_vars

\* C33: a turn whose playback was interrupted stays interrupted whatever
\* message comes next, and a response.audio carrying an interrupted turn id
\* is not queued for playback and leaves currentTurnId as it was
C33_InterruptedTurnStaysSilent ==
  [][lastOp'.op = "message" =>
       /\ pInterrupted \subseteq pInterrupted'
       /\ (AudioFrame(lastOp') /\ lastOp'.frame.turn \in pInterrupted) =>
            /\ pStream' = pStream
            /\ wTrack' = wTrack
            /\ currentTurnId' = currentTurnId]_vars

\* C34: the turn id of a trigger.response.audio.interrupted message is the
\* id of the track the worklet reported for the request, the track to which
\* the reported offset belongs
C34_InterruptedNamesItsOwnTrack ==
  [][lastOp'.op = "interrupt returned" =>
       \A j \in InterruptedSent(trace') :
         trace'[j].turn = pending[lastOp'.sock].track]_vars

\* C35: when a captured chunk makes the gate flush the pre-roll buffer, every
\* chunk the flush removes from the buffer is handed to the open channel
C35_FlushedChunksAreTransmitted ==
  [][(lastOp'.op = "capture" /\ audioBuffer # <<>> /\ audioBuffer' = <<>>) =>
       \A j \in DOMAIN audioBuffer :
         \E k \in DOMAIN trace' :
           /\ trace'[k].ev = "_wsSend"
           /\ trace'[k].text = "client.audio"
           /\ trace'[k].n = audioBuffer[j].id
           /\ trace'[k].sock # 0]_vars

\* C36: every connect() starts with an empty pre-roll buffer, so that the
\* first flush of the new connection has no chunk of an earlier one to send
C36_NoAudioAcrossSessions ==
  [][lastOp'.op = "connect" => audioBuffer' = <<>>]_vars

\* C37: the recorderStarted and readySent flags of a connection do not
\* outlive its disconnect(), and the open event of the channel of a connect()
\* that is still starting capture and playback does not send client.ready
C37_ReadyFlagsDoNotCarryOver ==
  [][/\ lastOp'.op = "disconnect" => (~recorderStarted' /\ ~readySent')
     /\ (/\ lastOp'.op = "ws.onopen"
         /\ lastOp'.sock = ws
         /\ connectPc \in {"begin", "record", "player"})
          => ReadySent(trace') = {}]_vars

\* the trigger.turn.start or trigger.turn.end messages emitted in a trace
TurnTriggers(tr, t) == {k \in DOMAIN tr : tr[k].ev = "_wsSend" /\ tr[k].text = t}

\* C38: pushToTalkActive starts false; triggerUserTurnStarted() emits one
\* trigger.turn.start, followed by exactly one wavPlayer.interrupt() request,
\* and sets pushToTalkActive when it was false, and does nothing when it was
\* true; triggerUserTurnFinished() emits one trigger.turn.end and clears
\* pushToTalkActive when it was true, and does nothing when it was false;
\* nothing else emits either message or changes pushToTalkActive.  So the two
\* messages alternate, trigger.turn.start first, and pushToTalkActive is true
\* exactly from a start to the next end.
C38_TurnTriggersAlternate ==
  /\ ~pushToTalkActive
  /\ [][LET starts == TurnTriggers(trace', "trigger.turn.start")
            ends == TurnTriggers(trace', "trigger.turn.end")
            requests == {k \in DOMAIN trace' : trace'[k].ev = "wavPlayer.interrupt"}
        IN CASE lastOp'.op = "triggerUserTurnStarted" ->
                  IF pushToTalkActive
                  THEN trace' = <<>> /\ pushToTalkActive' /\ pending' = pending
                  ELSE /\ starts = {1} /\ ends = {}
                       /\ requests = {2}
                       /\ pushToTalkActive'
                       /\ Len(pending') = Len(pending) + (IF pStream THEN 1 ELSE 0)
             [] lastOp'.op = "triggerUserTurnFinished" ->
                  IF pushToTalkActive
                  THEN /\ starts = {} /\ ends = {1}
                       /\ requests = {}
                       /\ ~pushToTalkActive'
                  ELSE trace' = <<>> /\ ~pushToTalkActive'
             [] OTHER ->
                  /\ starts = {} /\ ends = {}
                  /\ pushToTalkActive' = pushToTalkActive]_vars

\* a talk has just been started over playing response audio: turn.start is
\* out and the interruption request is with the worklet
C38_Witness ==
  /\ lastOp.op = "triggerUserTurnStarted"
  /\ pushToTalkActive
  /\ TurnTriggers(trace, "trigger.turn.start") = {1}
  /\ trace[1].sock # 0
  /\ pending # <<>>
  /\ pending[Len(pending)].state = "posted"

\* C39: once disconnect() has returned and until connect() is called again,
\* no engine is started, no amplitude fallback is installed and no
\* vad_model_failed is emitted
C39_NoDetectorAfterDisconnect ==
  [][nDisconnects > 0 =>
       /\ \A g \in DOMAIN vads :
            /\ (vads'[g].started /\ ~vads'[g].destroyed)
                 => (vads[g].started /\ ~vads[g].destroyed)
            /\ vads'[g].fallback => vads[g].fallback
       /\ vad' = 0
       /\ VadEvents(trace', "vad_model_failed") = {}]_vars

\* C40: WavStreamPlayer.isPlaying is true only while the player has a
\* stream
C40_IsPlayingImpliesStream == pIsPlaying => pStream

====
